---------------------------- MODULE Spec2Model ----------------------------
(***************************************************************************)
(* Model of the middleware classes of mcp_memory_bank (middlewares.py):    *)
(*   - AgentBehaviorProfilerMiddleware  (per-session tool statistics and   *)
(*     the behaviour report written at session end),                       *)
(*   - CrossReferenceRedundancyMiddleware (content index and the Jaccard   *)
(*     similarity scan over the memory-bank tree),                         *)
(* and of the tools of main.py that take a text or a file name:            *)
(*   - smart_content_analysis_and_routing (the content router),            *)
(*   - suggest_files_to_update, analyze_project_summary,                   *)
(*   - generate_memory_bank_template.                                      *)
(*                                                                         *)
(* Strings are modelled by what the code does with them.  A text is a      *)
(* sequence of tokens: a word ("a", or "A" for its upper-case spelling) or *)
(* ExtraSpace, a run of additional whitespace; two neighbouring words are  *)
(* separated by one blank.  A path is a sequence of pieces, so that        *)
(* str.endswith and substring tests are tests on sequences.                *)
(* Timestamps are left out: no modelled branch reads them.                 *)
(***************************************************************************)
EXTENDS Integers, Sequences, FiniteSets, Bags, TLC

VARIABLES
    session_stats,   \* AgentBehaviorProfilerMiddleware.session_stats
    in_flight,       \* profiler: calls suspended in `await call_next(context)`
    profile_log,     \* memory-bank/AgentBehaviorProfile.log, one entry per report
    calls_started,   \* number of tool calls that entered the profiler
    fs,              \* the *.md files under memory-bank/: path -> file
    content_index,   \* CrossReferenceRedundancyMiddleware.content_index
    init_task,       \* the task created by __init__: "pending" or "done"
    call,            \* redundancy middleware: the tool call being handled
    check,           \* outcome of the last _check_for_redundancy
    fs_ops,          \* number of file changes made so far
    tool_call,       \* the @mcp.tool() function being called, with its argument
    tool_result,     \* what that function returned, NoResult before it returns
    disk,            \* files written by the tools: resolved location -> content
    session_activity,\* MemoryCompletenessEnforcementMiddleware.session_activity
    pending,         \* completeness: calls suspended in `await call_next(context)`
    ending,          \* completeness: per session, the on_session_end in progress
    prompts,         \* the completeness prompts generated so far
    tool_log,        \* the TOOL_LOG entries written by ToolLoggingMiddleware
    last_op          \* the operation that produced the current state

profiler_vars == <<session_stats, in_flight, profile_log, calls_started>>
redundancy_vars == <<fs, content_index, init_task, call, check, fs_ops>>
tool_vars == <<tool_call, tool_result, disk>>
completeness_vars == <<session_activity, pending, ending, prompts>>
logging_vars == <<tool_log>>
hook_vars == <<completeness_vars, logging_vars>>
vars == <<session_stats, in_flight, profile_log, calls_started,
          fs, content_index, init_task, call, check, fs_ops,
          tool_call, tool_result, disk,
          session_activity, pending, ending, prompts, tool_log, last_op>>

---------------------------------------------------------------------------
(* Bounds of the model *)

MaxCalls == 3

(* Inputs of the profiler *)

Sessions == {"default_session", "sess_a"}

ProfiledTools == {"edit_file", "run_terminal_cmd", "suggest_files_to_update", "read_file"}

(* Inputs of the completeness middleware; "default" is its session id for a *)
(* context without one.                                                     *)

CompletenessSessions == {"default", "sess_a"}

TrackedTools == {"edit_file", "read_file"}

(* No on_session_end of the completeness middleware is in progress. *)
NotEnding == [pc |-> "idle"]

---------------------------------------------------------------------------
(* Generic helpers *)

RECURSIVE SumOver(_, _)
SumOver(f, S) ==
    IF S = {} THEN 0
    ELSE LET x == CHOOSE y \in S : TRUE IN f[x] + SumOver(f, S \ {x})

Last(s) == s[Len(s)]

Take(s, n) == IF Len(s) <= n THEN s ELSE SubSeq(s, 1, n)

(* Python's f"{num/den:.1f}" as a number of tenths: the quotient rounded to *)
(* the nearest tenth, a tie going to the even tenth.                        *)
FormatTenths(num, den) ==
    LET q == (10 * num) \div den
        r == (10 * num) % den
    IN  IF 2 * r > den THEN q + 1
        ELSE IF 2 * r < den THEN q
        ELSE IF q % 2 = 0 THEN q ELSE q + 1

---------------------------------------------------------------------------
(* AgentBehaviorProfilerMiddleware *)

memory_bank_tools ==
    {"suggest_files_to_update", "smart_content_analysis_and_routing",
     "intelligent_context_executor", "analyze_project_summary",
     "auto_detect_project_changes", "generate_memory_bank_template",
     "get_memory_bank_structure", "create_memory_bank_structure"}

core_dev_tools ==
    {"edit_file", "run_terminal_cmd", "search_replace", "delete_file",
     "edit_notebook", "create_diagram", "grep_search", "codebase_search"}

(* The record the defaultdict factory builds for an unseen session id. *)
NewSessionRecord ==
    [tool_usage |-> <<>>, memory_tools_used |-> 0, core_tools_used |-> 0,
     tool_sequence |-> <<>>]

(* Counter()[tool] += 1 *)
CounterIncrement(counter, tool) ==
    IF tool \in DOMAIN counter
    THEN [counter EXCEPT ![tool] = @ + 1]
    ELSE counter @@ (tool :> 1)

CounterTotal(counter) == SumOver(counter, DOMAIN counter)

(* self.session_stats[session_id]: a missing key is created by the factory. *)
StatsOf(stats_map, session_id) ==
    IF session_id \in DOMAIN stats_map THEN stats_map[session_id] ELSE NewSessionRecord

(* The statements of on_call_tool's try block. *)
RecordInto_DropsSequence(stats, tool_name) ==
    [stats EXCEPT
        !.tool_usage = CounterIncrement(@, tool_name),
        !.memory_tools_used = IF tool_name \in memory_bank_tools THEN @ + 1 ELSE @,
        !.core_tools_used = IF tool_name \in core_dev_tools THEN @ + 1 ELSE @]

RecordInto(stats, tool_name) ==
    [stats EXCEPT
        !.tool_usage = CounterIncrement(@, tool_name),
        !.tool_sequence = Append(@, tool_name),
        !.memory_tools_used = IF tool_name \in memory_bank_tools THEN @ + 1 ELSE @,
        !.core_tools_used =
            IF tool_name \notin memory_bank_tools /\ tool_name \in core_dev_tools
            THEN @ + 1 ELSE @]

(* The pairs "core tool -> memory tool" of positions lo..hi, in order. *)
RECURSIVE PatternsFrom(_, _)
PatternsFrom(sequence, i) ==
    IF i >= Len(sequence) THEN <<>>
    ELSE IF sequence[i] \in core_dev_tools /\ sequence[i + 1] \in memory_bank_tools
         THEN <<(<<sequence[i], sequence[i + 1]>>)>> \o PatternsFrom(sequence, i + 1)
         ELSE PatternsFrom(sequence, i + 1)

(* _analyze_tool_patterns: the loop runs over range(len(sequence) - 1), so  *)
(* the last entry is only ever looked at as a `next_tool`.  The rate is a   *)
(* number of tenths of a percent; `formatted` tells the "x.y%" string from  *)
(* the bare 0 of the short-sequence return.                                 *)
_analyze_tool_patterns(sequence) ==
    IF Len(sequence) < 2
    THEN [patterns |-> <<>>,
          memory_follow_up_rate |-> [formatted |-> FALSE, tenths |-> 0]]
    ELSE LET scanned == 1 .. (Len(sequence) - 1)
             core_tool_uses ==
                 Cardinality({i \in scanned : sequence[i] \in core_dev_tools})
             patterns == PatternsFrom(sequence, 1)
             memory_follow_ups == Len(patterns)
         IN  [patterns |-> Take(patterns, 5),
              memory_follow_up_rate |->
                  [formatted |-> TRUE,
                   tenths |-> IF core_tool_uses > 0
                              THEN FormatTenths(memory_follow_ups * 100, core_tool_uses)
                              ELSE 0],
              core_tool_uses |-> core_tool_uses,
              memory_follow_ups |-> memory_follow_ups]

(* memory_tools_used / total_tools if total_tools > 0 else 0, as a fraction. *)
AdherenceRatio_OverAllCalls(stats) ==
    LET total_tools == CounterTotal(stats.tool_usage)
    IN  IF total_tools > 0
        THEN [num |-> stats.memory_tools_used, den |-> total_tools]
        ELSE [num |-> 0, den |-> 1]

AdherenceRatio(stats) ==
    LET total_tools == stats.memory_tools_used + stats.core_tools_used
    IN  IF total_tools > 0
        THEN [num |-> stats.memory_tools_used, den |-> total_tools]
        ELSE [num |-> 0, den |-> 1]

(* _generate_behavior_report, without the timestamps and the top-10 list. *)
_generate_behavior_report(session_id, stats) ==
    LET memory_adherence_ratio == AdherenceRatio(stats)
    IN  [session_id |-> session_id,
         total_tool_calls |-> CounterTotal(stats.tool_usage),
         unique_tools_used |-> Cardinality(DOMAIN stats.tool_usage),
         memory_tools_used |-> stats.memory_tools_used,
         core_tools_used |-> stats.core_tools_used,
         memory_adherence_ratio |-> memory_adherence_ratio,
         memory_adherence_percentage |->
             FormatTenths(memory_adherence_ratio.num * 100, memory_adherence_ratio.den),
         tool_usage_breakdown |-> stats.tool_usage,
         pattern_analysis |-> _analyze_tool_patterns(stats.tool_sequence)]

Assessment_AtLeast(ratio) ==
    IF 10 * ratio.num >= 8 * ratio.den THEN "EXCELLENT"
    ELSE IF 10 * ratio.num >= 5 * ratio.den THEN "GOOD"
    ELSE "NEEDS IMPROVEMENT"

(* line 847: "EXCELLENT" if ratio > 0.8 else "GOOD" if ratio > 0.5 else     *)
(* "NEEDS IMPROVEMENT", for the ratio num/den                               *)
Assessment(ratio) ==
    IF 10 * ratio.num > 8 * ratio.den THEN "EXCELLENT"
    ELSE IF 10 * ratio.num > 5 * ratio.den THEN "GOOD"
    ELSE "NEEDS IMPROVEMENT"

(* _write_behavior_report: what is appended to AgentBehaviorProfile.log, the *)
(* report's values and the assessment the formatted text adds.              *)
_write_behavior_report(report) ==
    [field \in DOMAIN report \cup {"assessment"} |->
        IF field = "assessment" THEN Assessment(report.memory_adherence_ratio)
        ELSE report[field]]

(* on_call_tool up to `await call_next(context)`: nothing is recorded yet. *)
Profiler_CallStart(session_id, tool_name) ==
    /\ calls_started < MaxCalls
    /\ calls_started' = calls_started + 1
    /\ in_flight' = [in_flight EXCEPT ![<<session_id, tool_name>>] = @ + 1]
    /\ last_op' = [op |-> "call_start", session_id |-> session_id, tool |-> tool_name]
    /\ UNCHANGED <<session_stats, profile_log>>
    /\ UNCHANGED redundancy_vars
    /\ UNCHANGED tool_vars
    /\ UNCHANGED hook_vars

(* call_next returned: the try block records the call. *)
Profiler_CallReturn(session_id, tool_name) ==
    /\ in_flight[<<session_id, tool_name>>] > 0
    /\ in_flight' = [in_flight EXCEPT ![<<session_id, tool_name>>] = @ - 1]
    /\ session_stats' =
           [s \in DOMAIN session_stats \cup {session_id} |->
               IF s = session_id
               THEN RecordInto(StatsOf(session_stats, session_id), tool_name)
               ELSE session_stats[s]]
    /\ last_op' = [op |-> "call_return", session_id |-> session_id, tool |-> tool_name]
    /\ UNCHANGED <<profile_log, calls_started>>
    /\ UNCHANGED redundancy_vars
    /\ UNCHANGED tool_vars
    /\ UNCHANGED hook_vars

(* call_next raised: the exception leaves on_call_tool before the try block. *)
Profiler_CallRaise(session_id, tool_name) ==
    /\ in_flight[<<session_id, tool_name>>] > 0
    /\ in_flight' = [in_flight EXCEPT ![<<session_id, tool_name>>] = @ - 1]
    /\ last_op' = [op |-> "call_raise", session_id |-> session_id, tool |-> tool_name]
    /\ UNCHANGED <<session_stats, profile_log, calls_started>>
    /\ UNCHANGED redundancy_vars
    /\ UNCHANGED tool_vars
    /\ UNCHANGED hook_vars

(* on_session_end.  None of its awaits suspends, so it is one step.         *)
(* write_ok = FALSE is open()/write() failing inside _write_behavior_report *)
(* which logs the error and returns; the entry is deleted all the same.     *)
on_session_end_KeepsEntry(session_id, write_ok) ==
    /\ last_op' = [op |-> "session_end", session_id |-> session_id,
                   known |-> session_id \in DOMAIN session_stats]
    /\ IF session_id \notin DOMAIN session_stats
       THEN UNCHANGED <<session_stats, profile_log>>
       ELSE /\ profile_log' =
                  IF write_ok
                  THEN Append(profile_log,
                              _write_behavior_report(
                                  _generate_behavior_report(session_id, session_stats[session_id])))
                  ELSE profile_log
            /\ session_stats' = session_stats
    /\ UNCHANGED <<in_flight, calls_started>>
    /\ UNCHANGED redundancy_vars
    /\ UNCHANGED tool_vars
    /\ UNCHANGED hook_vars

on_session_end_NoGuard(session_id, write_ok) ==
    /\ last_op' = [op |-> "session_end", session_id |-> session_id,
                   known |-> session_id \in DOMAIN session_stats]
    /\ profile_log' =
           IF write_ok
           THEN Append(profile_log,
                       _write_behavior_report(
                           _generate_behavior_report(session_id, StatsOf(session_stats, session_id))))
           ELSE profile_log
    /\ session_stats' = [s \in DOMAIN session_stats \ {session_id} |-> session_stats[s]]
    /\ UNCHANGED <<in_flight, calls_started>>
    /\ UNCHANGED redundancy_vars
    /\ UNCHANGED tool_vars
    /\ UNCHANGED hook_vars

on_session_end(session_id, write_ok) ==
    /\ last_op' = [op |-> "session_end", session_id |-> session_id,
                   known |-> session_id \in DOMAIN session_stats]
    /\ IF session_id \notin DOMAIN session_stats
       THEN UNCHANGED <<session_stats, profile_log>>
       ELSE /\ profile_log' =
                  IF write_ok
                  THEN Append(profile_log,
                              _write_behavior_report(
                                  _generate_behavior_report(session_id, session_stats[session_id])))
                  ELSE profile_log
            /\ session_stats' =
                  [s \in DOMAIN session_stats \ {session_id} |-> session_stats[s]]
    /\ UNCHANGED <<in_flight, calls_started>>
    /\ UNCHANGED redundancy_vars
    /\ UNCHANGED tool_vars
    /\ UNCHANGED hook_vars

---------------------------------------------------------------------------
(* Texts and paths of the redundancy middleware *)

MaxFsOps == 1

ExtraSpace == " "

Lower(token) ==
    CASE token = "A" -> "a"
      [] token = "B" -> "b"
      [] token = "C" -> "c"
      [] token = "Deploy" -> "deploy"
      [] OTHER -> token

(* str.split(): the words of a text, in order. *)
Split(text) == SelectSeq(text, LAMBDA token : token # ExtraSpace)

(* str.lower() *)
LowerText(text) == [i \in DOMAIN text |-> Lower(text[i])]

Range(s) == {s[i] : i \in DOMAIN s}

(* set(content.lower().split()) *)
WordSet(text) == Range(Split(LowerText(text)))

(* _generate_content_hash: md5 of ' '.join(content.lower().split()); the    *)
(* digest is represented by the normalised text it is computed from.        *)
_generate_content_hash(content) == Split(LowerText(content))

Text10 == <<"a", "b", "c", "d", "e", "f", "g", "h", "i", "j">>
Text3 == <<"a", "b", "c">>
Text3Upper == <<"A", ExtraSpace, "B", "c">>
Text4 == <<"a", "b", "c", "d">>

Texts == {<<>>, Text3, Text3Upper, Text4, Text10}

RootOverview == <<"overview", ".md">>
ContextOverview == <<"context", "/", "overview", ".md">>
ContextTeam == <<"context", "/", "team", ".md">>

RelPaths == {RootOverview, ContextOverview, ContextTeam}

MemoryBankPrefix == <<"memory-bank", "/">>

TargetFiles == {MemoryBankPrefix \o p : p \in RelPaths} \cup {<<"src", "/", "main", ".py">>}

FileNames == {RootOverview, <<"overview">>}

(* The text generate_memory_bank_template writes into a new file. *)
TemplateText == Text4

(* needle in haystack, for a needle that is one piece *)
Contains(path, piece) == \E i \in DOMAIN path : path[i] = piece

(* haystack.endswith(suffix) *)
EndsWith(path, suffix) ==
    /\ Len(suffix) <= Len(path)
    /\ SubSeq(path, Len(path) - Len(suffix) + 1, Len(path)) = suffix

(* The orders in which rglob("*.md") may yield the files of a tree. *)
Orders(tree) ==
    LET n == Cardinality(DOMAIN tree)
    IN  {o \in [1 .. n -> DOMAIN tree] : \A i, j \in 1 .. n : o[i] = o[j] => i = j}

---------------------------------------------------------------------------
(* CrossReferenceRedundancyMiddleware *)

Intersection(content_words, existing_words) == Cardinality(content_words \cap existing_words)
Union_OfNewContentOnly(content_words, existing_words) == Cardinality(content_words)
Union(content_words, existing_words) == Cardinality(content_words \cup existing_words)

(* line 587: the files the scan passes over without comparing *)
SkippedAsSelf(relative_path, current_file) ==
    relative_path = current_file \/ EndsWith(current_file, relative_path)

(* lines 590-600 for one file that was read: is it appended to the result? *)
IsSimilar(content_words, existing_words) ==
    LET intersection == Intersection(content_words, existing_words)
        union == Union(content_words, existing_words)
    IN  /\ union > 0
        /\ 10 * intersection > 3 * union

(* _find_similar_content over the tree, visited in `order`.  `compared` is  *)
(* the set of files whose similarity was computed (read_text succeeded).    *)
_find_similar_content(content, current_file, tree, order) ==
    LET content_words == WordSet(content)
        Compared(p) == ~SkippedAsSelf(p, current_file) /\ tree[p].readable
        Hit(p) == Compared(p) /\ IsSimilar(content_words, WordSet(tree[p].content))
    IN  [similar_files |-> SelectSeq(order, Hit),
         compared |-> {p \in DOMAIN tree : Compared(p)}]

(* _initialize_content_index: entries are added or overwritten, file by     *)
(* file in rglob order; nothing is ever removed from the dictionary.        *)
RECURSIVE IndexFiles_StopsAtUnreadable(_, _, _, _)
IndexFiles_StopsAtUnreadable(index, tree, order, i) ==
    IF i > Len(order) \/ ~tree[order[i]].readable THEN index
    ELSE LET content_hash == _generate_content_hash(tree[order[i]].content)
         IN  IndexFiles_StopsAtUnreadable(
                 [h \in DOMAIN index \cup {content_hash} |->
                     IF h = content_hash THEN order[i] ELSE index[h]],
                 tree, order, i + 1)

RECURSIVE IndexFiles(_, _, _, _)
IndexFiles(index, tree, order, i) ==
    IF i > Len(order) THEN index
    ELSE LET md_file == order[i]
             content_hash == _generate_content_hash(tree[md_file].content)
             next == IF tree[md_file].readable
                     THEN [h \in DOMAIN index \cup {content_hash} |->
                              IF h = content_hash THEN md_file ELSE index[h]]
                     ELSE index
         IN  IndexFiles(next, tree, order, i + 1)

_initialize_content_index(index, tree, order) == IndexFiles(index, tree, order, 1)

NoCheck == [ran |-> FALSE]
Idle == [pc |-> "idle"]

(* The task created in __init__ runs once the event loop gets to it. *)
RunInitTask(order) ==
    /\ init_task = "pending"
    /\ order \in Orders(fs)
    /\ init_task' = "done"
    /\ content_index' = _initialize_content_index(content_index, fs, order)
    /\ last_op' = [op |-> "index_rebuild"]
    /\ UNCHANGED <<fs, call, check, fs_ops>>
    /\ UNCHANGED profiler_vars
    /\ UNCHANGED tool_vars
    /\ UNCHANGED hook_vars

(* An argument value that is not a str, as a number or None. *)
NonString == <<"<not a str>">>

IsStr(value) == value # NonString

Redundancy_CallStart_ChecksEveryEdit(tool_name, arguments, order) ==
    /\ call.pc = "idle"
    /\ order \in Orders(fs)
    /\ tool_name = "edit_file" => IsStr(arguments.target_file)
    /\ call' = [pc |-> "executing", tool_name |-> tool_name, arguments |-> arguments]
    /\ check' =
          IF /\ tool_name = "edit_file"
             /\ arguments.code_edit # <<>>
          THEN LET found == _find_similar_content(arguments.code_edit,
                                                  arguments.target_file, fs, order)
               IN  [ran |-> TRUE,
                    file_path |-> arguments.target_file,
                    content |-> arguments.code_edit,
                    similar_files |-> found.similar_files,
                    compared |-> found.compared,
                    prompted |-> found.similar_files # <<>>]
          ELSE NoCheck
    /\ last_op' = [op |-> "redundancy_check"]
    /\ UNCHANGED <<fs, content_index, init_task, fs_ops>>
    /\ UNCHANGED profiler_vars
    /\ UNCHANGED tool_vars
    /\ UNCHANGED hook_vars

(* on_call_tool, lines 496-509: up to `await call_next(context)`. *)
Redundancy_CallStart(tool_name, arguments, order) ==
    /\ call.pc = "idle"
    /\ order \in Orders(fs)
    /\ tool_name = "edit_file" => IsStr(arguments.target_file)
    /\ call' = [pc |-> "executing", tool_name |-> tool_name, arguments |-> arguments]
    /\ check' =
          IF /\ tool_name = "edit_file"
             /\ Contains(arguments.target_file, "memory-bank")
             /\ arguments.code_edit # <<>>
          THEN LET found == _find_similar_content(arguments.code_edit,
                                                  arguments.target_file, fs, order)
               IN  [ran |-> TRUE,
                    file_path |-> arguments.target_file,
                    content |-> arguments.code_edit,
                    similar_files |-> found.similar_files,
                    compared |-> found.compared,
                    prompted |-> found.similar_files # <<>>]
          ELSE NoCheck
    /\ last_op' = [op |-> "redundancy_check"]
    /\ UNCHANGED <<fs, content_index, init_task, fs_ops>>
    /\ UNCHANGED profiler_vars
    /\ UNCHANGED tool_vars
    /\ UNCHANGED hook_vars

(* on_call_tool, line 507: `'memory-bank' in file_path` raises TypeError for *)
(* a target_file that is not a str; nothing catches it, so the exception    *)
(* leaves on_call_tool before call_next and the tool does not run.          *)
Redundancy_CallStartRaises(tool_name, arguments) ==
    /\ call.pc = "idle"
    /\ tool_name = "edit_file"
    /\ ~IsStr(arguments.target_file)
    /\ last_op' = [op |-> "middleware_raised", tool_name |-> tool_name,
                   tool_executed |-> FALSE]
    /\ UNCHANGED redundancy_vars
    /\ UNCHANGED profiler_vars
    /\ UNCHANGED tool_vars
    /\ UNCHANGED hook_vars

(* generate_memory_bank_template: '.md' is appended when missing, and the   *)
(* template is written only when no such file exists.                       *)
TemplateTarget(file_name) ==
    IF EndsWith(file_name, <<".md">>) THEN file_name ELSE file_name \o <<".md">>

(* The path below memory-bank/ that a target names, <<>> when it names none. *)
PathUnderMemoryBank(target_file) ==
    IF Len(target_file) > 2 /\ SubSeq(target_file, 1, 2) = MemoryBankPrefix
    THEN SubSeq(target_file, 3, Len(target_file))
    ELSE <<>>

WriteFile(tree, path, file) ==
    [p \in DOMAIN tree \cup {path} |-> IF p = path THEN file ELSE tree[p]]

(* call_next(context): the tool runs.  edit_file belongs to the client; it  *)
(* stores code_edit in the target, or changes nothing (applied = FALSE).    *)
ToolExecute(applied) ==
    /\ call.pc = "executing"
    /\ LET target ==
              IF call.tool_name = "edit_file"
              THEN PathUnderMemoryBank(call.arguments.target_file)
              ELSE IF call.arguments.file_name = <<>> THEN <<>>
              ELSE TemplateTarget(call.arguments.file_name)
           writes ==
              /\ applied
              /\ target # <<>>
              /\ call.tool_name = "generate_memory_bank_template" => target \notin DOMAIN fs
              /\ fs_ops < MaxFsOps
           text == IF call.tool_name = "edit_file"
                   THEN call.arguments.code_edit ELSE TemplateText
       IN  /\ call' = [pc |-> "returned", tool_name |-> call.tool_name,
                        arguments |-> call.arguments, wrote |-> writes]
           /\ IF writes
              THEN /\ fs' = WriteFile(fs, target, [content |-> text, readable |-> TRUE])
                   /\ fs_ops' = fs_ops + 1
              ELSE UNCHANGED <<fs, fs_ops>>
    /\ last_op' = [op |-> "tool_executed"]
    /\ UNCHANGED <<content_index, init_task, check>>
    /\ UNCHANGED profiler_vars
    /\ UNCHANGED tool_vars
    /\ UNCHANGED hook_vars

(* call_next raised: the exception leaves on_call_tool at line 512. *)
ToolRaise ==
    /\ call.pc = "executing"
    /\ call' = Idle
    /\ check' = NoCheck
    /\ last_op' = [op |-> "tool_raised"]
    /\ UNCHANGED <<fs, content_index, init_task, fs_ops>>
    /\ UNCHANGED profiler_vars
    /\ UNCHANGED tool_vars
    /\ UNCHANGED hook_vars

(* on_call_tool, lines 514-522: the index update after the tool returned. *)
Redundancy_CallFinish(order) ==
    /\ call.pc = "returned"
    /\ order \in Orders(fs)
    /\ LET refresh ==
              /\ call.tool_name \in {"generate_memory_bank_template", "edit_file"}
              /\ Contains(call.arguments.target_file, "memory-bank")
       IN  /\ content_index' =
                 IF refresh THEN _initialize_content_index(content_index, fs, order)
                 ELSE content_index
           /\ last_op' = [op |-> IF refresh THEN "index_rebuild" ELSE "call_returned"]
    /\ call' = Idle
    /\ check' = NoCheck
    /\ UNCHANGED <<fs, init_task, fs_ops>>
    /\ UNCHANGED profiler_vars
    /\ UNCHANGED tool_vars
    /\ UNCHANGED hook_vars

(* The user or another program changes the tree between steps. *)
ExternalWrite(path, text, readable) ==
    /\ fs_ops < MaxFsOps
    /\ fs_ops' = fs_ops + 1
    /\ fs' = WriteFile(fs, path, [content |-> text, readable |-> readable])
    /\ last_op' = [op |-> "file_written"]
    /\ UNCHANGED <<content_index, init_task, call, check>>
    /\ UNCHANGED profiler_vars
    /\ UNCHANGED tool_vars
    /\ UNCHANGED hook_vars

ExternalDelete(path) ==
    /\ fs_ops < MaxFsOps
    /\ path \in DOMAIN fs
    /\ fs_ops' = fs_ops + 1
    /\ fs' = [p \in DOMAIN fs \ {path} |-> fs[p]]
    /\ last_op' = [op |-> "file_deleted"]
    /\ UNCHANGED <<content_index, init_task, call, check>>
    /\ UNCHANGED profiler_vars
    /\ UNCHANGED tool_vars
    /\ UNCHANGED hook_vars

---------------------------------------------------------------------------
(* Specifications *)

(* No tool function has been called yet. *)
NoCall == [tool |-> "none"]

NoResult == [kind |-> "none"]

(* The tree the middleware finds when it is constructed is whatever the     *)
(* project holds at that time.                                              *)
SeededTree ==
    (RootOverview :> [content |-> Text10, readable |-> TRUE])
        @@ (ContextOverview :> [content |-> Text3, readable |-> TRUE])

InitialTrees == {<<>>, SeededTree}

Init ==
    /\ session_stats = <<>>
    /\ in_flight = [c \in Sessions \X ProfiledTools |-> 0]
    /\ profile_log = <<>>
    /\ calls_started = 0
    /\ fs = <<>>
    /\ content_index = <<>>
    /\ init_task = "pending"
    /\ call = Idle
    /\ check = NoCheck
    /\ fs_ops = 0
    /\ tool_call = NoCall
    /\ tool_result = NoResult
    /\ disk = <<>>
    /\ last_op = [op |-> "constructed"]
    /\ session_activity = <<>>
    /\ pending = EmptyBag
    /\ ending = [s \in CompletenessSessions |-> NotEnding]
    /\ prompts = <<>>
    /\ tool_log = <<>>

InitRedundancy ==
    /\ session_stats = <<>>
    /\ in_flight = [c \in Sessions \X ProfiledTools |-> 0]
    /\ profile_log = <<>>
    /\ calls_started = 0
    /\ fs \in InitialTrees
    /\ content_index = <<>>
    /\ init_task = "pending"
    /\ call = Idle
    /\ check = NoCheck
    /\ fs_ops = 0
    /\ tool_call = NoCall
    /\ tool_result = NoResult
    /\ disk = <<>>
    /\ last_op = [op |-> "constructed"]
    /\ session_activity = <<>>
    /\ pending = EmptyBag
    /\ ending = [s \in CompletenessSessions |-> NotEnding]
    /\ prompts = <<>>
    /\ tool_log = <<>>

EditArguments ==
    [target_file : TargetFiles, code_edit : Texts, file_name : {<<>>}]

TemplateArguments ==
    [target_file : {<<>>}, code_edit : {<<>>}, file_name : FileNames \cup {<<>>}]

NextProfiler ==
    \/ \E s \in Sessions, t \in ProfiledTools : Profiler_CallStart(s, t)
    \/ \E s \in Sessions, t \in ProfiledTools : Profiler_CallReturn(s, t)
    \/ \E s \in Sessions, t \in ProfiledTools : Profiler_CallRaise(s, t)
    \/ \E s \in Sessions, ok \in BOOLEAN : on_session_end(s, ok)

NextRedundancy ==
    \/ \E o \in Orders(fs) : RunInitTask(o)
    \/ \E a \in EditArguments, o \in Orders(fs) : Redundancy_CallStart("edit_file", a, o)
    \/ \E a \in TemplateArguments, o \in Orders(fs) :
           Redundancy_CallStart("generate_memory_bank_template", a, o)
    \/ \E applied \in BOOLEAN : ToolExecute(applied)
    \/ ToolRaise
    \/ \E o \in Orders(fs) : Redundancy_CallFinish(o)
    \/ \E p \in RelPaths, t \in Texts, r \in BOOLEAN : ExternalWrite(p, t, r)
    \/ \E p \in RelPaths : ExternalDelete(p)

SpecProfiler == Init /\ [][NextProfiler]_vars

SpecRedundancy == InitRedundancy /\ [][NextRedundancy]_vars

---------------------------------------------------------------------------
(* The scan and the index build over a tree that does not change: the tree  *)
(* is any of ScanTrees, the edits carry any of ScanTexts.                   *)

WhitespaceOnly == <<ExtraSpace>>

ScanTexts == {WhitespaceOnly, Text3, Text3Upper, Text4, Text10}

ScanFiles == [content : {<<>>, Text3, Text10}, readable : BOOLEAN]

ScanTrees == UNION {[present -> ScanFiles] : present \in SUBSET RelPaths}

ScanArguments ==
    [target_file : TargetFiles, code_edit : ScanTexts, file_name : {<<>>}]

InitScan ==
    /\ session_stats = <<>>
    /\ in_flight = [c \in Sessions \X ProfiledTools |-> 0]
    /\ profile_log = <<>>
    /\ calls_started = 0
    /\ fs \in ScanTrees
    /\ content_index = <<>>
    /\ init_task = "pending"
    /\ call = Idle
    /\ check = NoCheck
    /\ fs_ops = 0
    /\ tool_call = NoCall
    /\ tool_result = NoResult
    /\ disk = <<>>
    /\ last_op = [op |-> "constructed"]
    /\ session_activity = <<>>
    /\ pending = EmptyBag
    /\ ending = [s \in CompletenessSessions |-> NotEnding]
    /\ prompts = <<>>
    /\ tool_log = <<>>

NextScan ==
    \/ \E o \in Orders(fs) : RunInitTask(o)
    \/ \E a \in ScanArguments, o \in Orders(fs) : Redundancy_CallStart("edit_file", a, o)
    \/ ToolExecute(FALSE)
    \/ ToolRaise
    \/ \E o \in Orders(fs) : Redundancy_CallFinish(o)

SpecScan == InitScan /\ [][NextScan]_vars

---------------------------------------------------------------------------
(* Calls of edit_file and generate_memory_bank_template through the         *)
(* redundancy middleware, with arguments as a client may send them: a       *)
(* target_file may be missing (<<>>, the default of arguments.get) or not   *)
(* a str.                                                                   *)

ChainEditArguments ==
    [ target_file : { MemoryBankPrefix \o RootOverview,
                      MemoryBankPrefix \o ContextOverview,
                      <<"src", "/", "main", ".py">>, <<>>, NonString },
      code_edit   : {<<>>, Text3, Text4},
      file_name   : {<<>>} ]

ChainTemplateArguments ==
    [target_file : {<<>>}, code_edit : {<<>>}, file_name : {<<"overview">>, ContextTeam}]

NextChain ==
    \/ \E o \in Orders(fs) : RunInitTask(o)
    \/ \E a \in ChainEditArguments, o \in Orders(fs) : Redundancy_CallStart("edit_file", a, o)
    \/ \E a \in ChainEditArguments : Redundancy_CallStartRaises("edit_file", a)
    \/ \E a \in ChainTemplateArguments, o \in Orders(fs) :
           Redundancy_CallStart("generate_memory_bank_template", a, o)
    \/ \E applied \in BOOLEAN : ToolExecute(applied)
    \/ ToolRaise
    \/ \E o \in Orders(fs) : Redundancy_CallFinish(o)

SpecChain == InitRedundancy /\ [][NextChain]_vars

---------------------------------------------------------------------------
(* ToolLoggingMiddleware, middlewares.py 162-294.  A str value is the       *)
(* sequence of its characters; a dict is a function from its keys.          *)

MaxLogEntries == 1

Redacted == <<"[REDACTED]">>

TruncatedMark == <<"...[truncated]">>

ShortSecret == <<"h", "u", "n", "t", "e", "r", "2">>

(* a str of 201 characters *)
LongSecret == [i \in 1..201 |-> IF i % 2 = 1 THEN "s" ELSE "3"]

ArgumentKeys == {"password", "Token", "path"}

ArgumentValues == {ShortSecret, LongSecret, NonString}

(* every dict over the keys *)
LoggedArguments ==
    UNION {[keys -> ArgumentValues] : keys \in SUBSET ArgumentKeys}

(* key.lower() *)
KeyLower(key) ==
    CASE key = "Token" -> "token"
      [] OTHER -> key

SensitiveKeys == {"password", "token", "secret", "key"}

(* _sanitize_arguments, lines 234-244 *)
_sanitize_arguments(arguments) ==
    [key \in DOMAIN arguments |->
        LET value == arguments[key]
        IN  IF IsStr(value) /\ Len(value) > 200
            THEN SubSeq(value, 1, 200) \o TruncatedMark
            ELSE IF KeyLower(key) \in SensitiveKeys
            THEN Redacted
            ELSE value]

(* on_call_tool, lines 197-232: the tool runs, then the entry is built and  *)
(* appended to the log inside try/except.  write_ok = FALSE is               *)
(* _append_to_log_file failing, which is logged and swallowed.               *)
Logging_on_call_tool(tool_name, arguments, write_ok) ==
    /\ Len(tool_log) < MaxLogEntries
    /\ tool_log' =
           IF write_ok
           THEN Append(tool_log, [tool_name |-> tool_name,
                                  arguments |-> _sanitize_arguments(arguments)])
           ELSE tool_log
    /\ last_op' = [op |-> "tool_logged", tool_name |-> tool_name,
                   arguments |-> arguments, written |-> write_ok]
    /\ UNCHANGED completeness_vars
    /\ UNCHANGED profiler_vars
    /\ UNCHANGED redundancy_vars
    /\ UNCHANGED tool_vars

NextLogging ==
    \E arguments \in LoggedArguments, write_ok \in BOOLEAN :
        Logging_on_call_tool("edit_file", arguments, write_ok)

SpecLogging == Init /\ [][NextLogging]_vars

---------------------------------------------------------------------------
(* MemoryCompletenessEnforcementMiddleware, middlewares.py 300-445 *)

MaxActivity == 2

MaxPrompts == 2

(* session_activity.get(session_id, []) *)
ActivityOf(activity, session_id) ==
    IF session_id \in DOMAIN activity THEN activity[session_id] ELSE <<>>

RecordedActivity == SumOver([s \in DOMAIN session_activity |-> Len(session_activity[s])],
                            DOMAIN session_activity)

(* on_call_tool up to `await call_next(context)` *)
Completeness_CallStart(session_id, tool_name) ==
    /\ BagCardinality(pending) + RecordedActivity < MaxActivity
    /\ pending' = pending (+) SetToBag({<<session_id, tool_name>>})
    /\ last_op' = [op |-> "tracked_call_start", session_id |-> session_id, tool |-> tool_name]
    /\ UNCHANGED <<session_activity, ending, prompts>>
    /\ UNCHANGED logging_vars
    /\ UNCHANGED profiler_vars
    /\ UNCHANGED redundancy_vars
    /\ UNCHANGED tool_vars

(* call_next returned: the call is appended to the session's list, which    *)
(* the defaultdict creates when the session has none.                       *)
Completeness_CallReturn(session_id, tool_name) ==
    /\ BagIn(<<session_id, tool_name>>, pending)
    /\ pending' = pending (-) SetToBag({<<session_id, tool_name>>})
    /\ session_activity' =
           [s \in DOMAIN session_activity \cup {session_id} |->
               IF s = session_id
               THEN Append(ActivityOf(session_activity, session_id), [tool |-> tool_name])
               ELSE session_activity[s]]
    /\ last_op' = [op |-> "tracked_call_return", session_id |-> session_id, tool |-> tool_name]
    /\ UNCHANGED <<ending, prompts>>
    /\ UNCHANGED logging_vars
    /\ UNCHANGED profiler_vars
    /\ UNCHANGED redundancy_vars
    /\ UNCHANGED tool_vars

(* call_next raised: the exception leaves on_call_tool, nothing is appended *)
Completeness_CallRaise(session_id, tool_name) ==
    /\ BagIn(<<session_id, tool_name>>, pending)
    /\ pending' = pending (-) SetToBag({<<session_id, tool_name>>})
    /\ last_op' = [op |-> "tracked_call_raise", session_id |-> session_id, tool |-> tool_name]
    /\ UNCHANGED <<session_activity, ending, prompts>>
    /\ UNCHANGED logging_vars
    /\ UNCHANGED profiler_vars
    /\ UNCHANGED redundancy_vars
    /\ UNCHANGED tool_vars

(* on_session_end up to its first await (lines 346-357): `activity` is the   *)
(* list object held by session_activity[session_id] when the session has an *)
(* entry (shared), and a new empty list otherwise.                           *)
Completeness_SessionEndStart(session_id) ==
    /\ ending[session_id].pc = "idle"
    /\ Len(prompts) < MaxPrompts
    /\ ending' = [ending EXCEPT ![session_id] =
                     [pc |-> "awaiting", shared |-> session_id \in DOMAIN session_activity]]
    /\ last_op' = [op |-> "completeness_end_start", session_id |-> session_id]
    /\ UNCHANGED <<session_activity, pending, prompts>>
    /\ UNCHANGED logging_vars
    /\ UNCHANGED profiler_vars
    /\ UNCHANGED redundancy_vars
    /\ UNCHANGED tool_vars

(* on_session_end after its awaits (lines 359-367): the prompt reports       *)
(* len(activity) and the session's entry is deleted.                         *)
Completeness_SessionEndFinish(session_id) ==
    /\ ending[session_id].pc = "awaiting"
    /\ LET activity == IF ending[session_id].shared
                       THEN ActivityOf(session_activity, session_id)
                       ELSE <<>>
       IN  prompts' = Append(prompts, [session_id |-> session_id,
                                       tools_used |-> Len(activity)])
    /\ session_activity' =
           [s \in DOMAIN session_activity \ {session_id} |-> session_activity[s]]
    /\ ending' = [ending EXCEPT ![session_id] = NotEnding]
    /\ last_op' = [op |-> "completeness_prompt", session_id |-> session_id]
    /\ UNCHANGED pending
    /\ UNCHANGED logging_vars
    /\ UNCHANGED profiler_vars
    /\ UNCHANGED redundancy_vars
    /\ UNCHANGED tool_vars

NextCompleteness ==
    \/ \E s \in CompletenessSessions, t \in TrackedTools : Completeness_CallStart(s, t)
    \/ \E s \in CompletenessSessions, t \in TrackedTools : Completeness_CallReturn(s, t)
    \/ \E s \in CompletenessSessions, t \in TrackedTools : Completeness_CallRaise(s, t)
    \/ \E s \in CompletenessSessions : Completeness_SessionEndStart(s)
    \/ \E s \in CompletenessSessions : Completeness_SessionEndFinish(s)

SpecCompleteness == Init /\ [][NextCompleteness]_vars

---------------------------------------------------------------------------
(* The report of a session that ends after any number of recorded calls:    *)
(* the session has recorded m calls of a memory bank tool and c calls of a  *)
(* core tool, or one call of a tool of neither kind.                        *)

MaxToolsUsed == 9

RECURSIVE RecordCalls(_, _, _)
RecordCalls(stats, tool_name, n) ==
    IF n = 0 THEN stats ELSE RecordCalls(RecordInto(stats, tool_name), tool_name, n - 1)

RecordedSessions ==
    ({ RecordCalls(RecordCalls(NewSessionRecord, "suggest_files_to_update", m), "edit_file", c) :
          m \in 0..MaxToolsUsed, c \in 0..MaxToolsUsed }
     \ {NewSessionRecord})
    \cup {RecordInto(NewSessionRecord, "read_file")}

InitReport ==
    /\ session_stats \in {("sess_a" :> stats) : stats \in RecordedSessions}
    /\ in_flight = [c \in Sessions \X ProfiledTools |-> 0]
    /\ profile_log = <<>>
    /\ calls_started = 0
    /\ fs = <<>>
    /\ content_index = <<>>
    /\ init_task = "pending"
    /\ call = Idle
    /\ check = NoCheck
    /\ fs_ops = 0
    /\ tool_call = NoCall
    /\ tool_result = NoResult
    /\ disk = <<>>
    /\ last_op = [op |-> "constructed"]
    /\ session_activity = <<>>
    /\ pending = EmptyBag
    /\ ending = [s \in CompletenessSessions |-> NotEnding]
    /\ prompts = <<>>
    /\ tool_log = <<>>

NextReport == \E s \in Sessions, write_ok \in BOOLEAN : on_session_end(s, write_ok)

SpecReport == InitReport /\ [][NextReport]_vars

---------------------------------------------------------------------------
(* Content Router: smart_content_analysis_and_routing, main.py 2135-2434    *)
(*                                                                          *)
(* A text given to the router is the sequence of its words, joined by       *)
(* single blanks; a word is a sequence of fragments, each a string without  *)
(* a blank. An empty word between two blanks adds nothing but the blank:    *)
(* <<Blank>> is the empty string and <<Blank, Blank>> is the text " ".      *)
(* A keyword is a sequence of fragments too, and `kw in text` is true when  *)
(* the keyword's fragments stand next to each other inside one word.        *)

MaxContentWords == 3

Blank == <<>>

Vocabulary ==
    { Blank, <<"#">>, <<"overview">>, <<"design">>, <<"data">>,
      <<"infra", "structure">>, <<"server">>, <<"Deploy">>, <<"pipeline">>,
      <<"kubernetes">>, <<"change", "log">>, <<"meeting">>, <<"bug">>,
      <<"decision">> }

Contents == UNION {[1..n -> Vocabulary] : n \in 1..MaxContentWords}

(* `not input_content` *)
IsEmptyString(text) == Len(text) = 0 \/ text = <<Blank>>

(* input_content.split() *)
Words(text) == SelectSeq(text, LAMBDA word : word # Blank)

(* input_content.lower() *)
LowerContent(text) == [i \in DOMAIN text |-> LowerText(text[i])]

(* `kw in content_lower` for a keyword without a blank *)
In(kw, text) ==
    \E i \in DOMAIN text :
        \E j \in 0..(Len(text[i]) - Len(kw)) :
            SubSeq(text[i], j + 1, j + Len(kw)) = kw

(* `kw in content_lower` for a keyword that ends in a blank, as '# ' *)
InBeforeBlank(kw, text) ==
    \E i \in 1..(Len(text) - 1) :
        /\ Len(text[i]) >= Len(kw)
        /\ SubSeq(text[i], Len(text[i]) - Len(kw) + 1, Len(text[i])) = kw

(* any(word in content_lower for word in keywords) *)
AnyIn(keywords, text) == \E kw \in keywords : In(kw, text)

context_indicators ==
    { <<"overview">>, <<"stakeholder">>, <<"business">>, <<"goal">>,
      <<"objective">>, <<"requirement">>, <<"user">>, <<"customer">> }

tech_indicators ==
    { <<"architecture">>, <<"design">>, <<"pattern">>, <<"structure">>,
      <<"component">> }

devops_indicators ==
    { <<"deploy">>, <<"infra", "structure">>, <<"server">>, <<"cloud">>,
      <<"pipeline">>, <<"ci/cd">>, <<"monitoring">>, <<"build">> }

meta_indicators ==
    { <<"change">>, <<"decision">>, <<"config">>, <<"update">>, <<"modify">>,
      <<"log">>, <<"history">>, <<"version">> }

(* sum(1 for indicator in indicators if indicator in content_lower) *)
Score(indicators, content_lower) ==
    Cardinality({kw \in indicators : In(kw, content_lower)})

category_scores(content_lower) ==
    [ context      |-> Score(context_indicators, content_lower),
      tech_specs   |-> Score(tech_indicators, content_lower),
      devops       |-> Score(devops_indicators, content_lower),
      dynamic_meta |-> Score(meta_indicators, content_lower) ]

(* the keys of category_scores in the order the dict was filled *)
Categories == <<"context", "tech_specs", "devops", "dynamic_meta">>

max_score(scores) ==
    CHOOSE m \in {scores[c] : c \in Range(Categories)} :
        \A c \in Range(Categories) : scores[c] <= m

primary_category_LastWins(scores) ==
    IF max_score(scores) > 0
    THEN Categories[CHOOSE i \in DOMAIN Categories :
            /\ scores[Categories[i]] = max_score(scores)
            /\ \A j \in DOMAIN Categories :
                  j > i => scores[Categories[j]] # max_score(scores)]
    ELSE "general"

(* max(category_scores, key=category_scores.get): the first key, in the     *)
(* dict's order, that has the highest score                                 *)
primary_category(scores) ==
    IF max_score(scores) > 0
    THEN Categories[CHOOSE i \in DOMAIN Categories :
            /\ scores[Categories[i]] = max_score(scores)
            /\ \A j \in 1..(i - 1) : scores[Categories[j]] # max_score(scores)]
    ELSE "general"

(* max_score / len(input_content.split()) * 100, as a fraction num/den *)
confidence(scores, input_content) ==
    IF max_score(scores) > 0
    THEN [num |-> max_score(scores) * 100, den |-> Len(Words(input_content))]
    ELSE [num |-> 0, den |-> 1]

content_type(content_lower) ==
    IF AnyIn({<<"class">>, <<"function">>, <<"method">>, <<"import">>, <<"def">>,
            <<"var">>, <<"const">>}, content_lower)
    THEN "code"
    ELSE IF \/ InBeforeBlank(<<"#">>, content_lower)
            \/ InBeforeBlank(<<"#", "#">>, content_lower)
            \/ InBeforeBlank(<<"#", "#", "#">>, content_lower)
            \/ AnyIn({<<"markdown">>, <<"documentation">>}, content_lower)
    THEN "documentation"
    ELSE IF AnyIn({<<"meeting">>, <<"discussion">>, <<"notes">>, <<"agenda">>},
                  content_lower)
    THEN "meeting_notes"
    ELSE IF AnyIn({<<"decision">>, <<"choice">>, <<"option">>, <<"alternative">>},
                content_lower)
    THEN "decision_record"
    ELSE IF AnyIn({<<"bug">>, <<"issue">>, <<"fix">>, <<"error">>, <<"problem">>},
                content_lower)
    THEN "issue_report"
    ELSE "general_content"

Suggestion(file, reason, priority) ==
    [file |-> file, reason |-> reason, priority |-> priority]

(* `if cond: routing_suggestions.append(suggestion)` *)
AppendIf(cond, suggestion) == IF cond THEN <<suggestion>> ELSE <<>>

(* lines 2268-2340: the entries appended for the primary category *)
CategoryRouting(category, type, content_lower) ==
    CASE category = "context" ->
            AppendIf(In(<<"overview">>, content_lower),
                     Suggestion("context/overview.md",
                                "Contains project overview information", "high"))
         \o AppendIf(AnyIn({<<"stakeholder">>, <<"team">>, <<"role">>}, content_lower),
                     Suggestion("context/stakeholders.md",
                                "Contains stakeholder information", "high"))
         \o AppendIf(AnyIn({<<"metric">>, <<"kpi">>, <<"success">>, <<"performance">>},
                           content_lower),
                     Suggestion("context/success_metrics.md",
                                "Contains success metrics and KPIs", "medium"))
      [] category = "tech_specs" ->
            AppendIf(AnyIn({<<"architecture">>, <<"design">>, <<"pattern">>}, content_lower),
                     Suggestion("tech_specs/system_architecture.md",
                                "Contains system architecture information", "high"))
         \o AppendIf(AnyIn({<<"api">>, <<"endpoint">>, <<"rest">>, <<"graphql">>},
                           content_lower),
                     Suggestion("tech_specs/api_reference.md",
                                "Contains API documentation", "high"))
         \o AppendIf(AnyIn({<<"data">>, <<"flow">>, <<"pipeline">>}, content_lower),
                     Suggestion("tech_specs/data_flow.md",
                                "Contains data flow information", "medium"))
      [] category = "devops" ->
            AppendIf(AnyIn({<<"deploy">>, <<"deploy", "ment">>, <<"infra", "structure">>},
                           content_lower),
                     Suggestion("devops/deployment_architecture.md",
                                "Contains deployment information", "high"))
         \o AppendIf(AnyIn({<<"ci/cd">>, <<"pipeline">>, <<"build">>}, content_lower),
                     Suggestion("devops/ci_cd_pipeline.md",
                                "Contains CI/CD pipeline information", "high"))
      [] category = "dynamic_meta" ->
            AppendIf(type = "decision_record",
                     Suggestion("dynamic_meta/decision_logs.md",
                                "Contains decision information", "high"))
         \o AppendIf(AnyIn({<<"change">>, <<"update">>, <<"modify">>}, content_lower),
                     Suggestion("dynamic_meta/change_log.md",
                                "Contains change information", "high"))
         \o AppendIf(AnyIn({<<"config">>, <<"config", "uration">>, <<"setting">>},
                           content_lower),
                     Suggestion("dynamic_meta/config_map.md",
                                "Contains configuration information", "medium"))
      [] OTHER -> <<>>

ContentTypeRouting_MeetingNotesHigh(type) ==
       AppendIf(type = "meeting_notes",
                Suggestion("dynamic_meta/change_log.md",
                           "Meeting notes should be logged as changes", "high"))
    \o AppendIf(type = "issue_report",
                Suggestion("dynamic_meta/change_log.md",
                           "Issue reports should be tracked in change log", "high"))

(* lines 2343-2355: the entries appended for the content type *)
ContentTypeRouting(type) ==
       AppendIf(type = "meeting_notes",
                Suggestion("dynamic_meta/change_log.md",
                           "Meeting notes should be logged as changes", "medium"))
    \o AppendIf(type = "issue_report",
                Suggestion("dynamic_meta/change_log.md",
                           "Issue reports should be tracked in change log", "high"))

(* The file and priority literals of lines 2268-2340, by category. *)
CategoryTable ==
    { [category |-> "context", file |-> "context/overview.md", priority |-> "high"],
      [category |-> "context", file |-> "context/stakeholders.md", priority |-> "high"],
      [category |-> "context", file |-> "context/success_metrics.md", priority |-> "medium"],
      [category |-> "tech_specs", file |-> "tech_specs/system_architecture.md", priority |-> "high"],
      [category |-> "tech_specs", file |-> "tech_specs/api_reference.md", priority |-> "high"],
      [category |-> "tech_specs", file |-> "tech_specs/data_flow.md", priority |-> "medium"],
      [category |-> "devops", file |-> "devops/deployment_architecture.md", priority |-> "high"],
      [category |-> "devops", file |-> "devops/ci_cd_pipeline.md", priority |-> "high"],
      [category |-> "dynamic_meta", file |-> "dynamic_meta/decision_logs.md", priority |-> "high"],
      [category |-> "dynamic_meta", file |-> "dynamic_meta/change_log.md", priority |-> "high"],
      [category |-> "dynamic_meta", file |-> "dynamic_meta/config_map.md", priority |-> "medium"] }

(* routing_suggestions as it stands at line 2356, before the clean-up *)
routing_suggestions(input_content) ==
    LET content_lower == LowerContent(input_content)
        type == content_type(content_lower)
    IN  CategoryRouting(primary_category(category_scores(content_lower)),
                        type, content_lower)
        \o ContentTypeRouting(type)

unique_suggestions_KeepsAll(suggestions) == suggestions

(* lines 2357-2363: keep an entry unless its file was seen before *)
unique_suggestions(suggestions) ==
    LET RECURSIVE from(_, _)
        from(i, seen_files) ==
            IF i > Len(suggestions) THEN <<>>
            ELSE IF suggestions[i].file \in seen_files
                 THEN from(i + 1, seen_files)
                 ELSE <<suggestions[i]>>
                      \o from(i + 1, seen_files \cup {suggestions[i].file})
    IN  from(1, {})

(* priority_order.get(x['priority'], 3) *)
priority_order(priority) ==
    CASE priority = "high" -> 0
      [] priority = "medium" -> 1
      [] priority = "low" -> 2
      [] OTHER -> 3

(* list.sort(key=...) is stable: entries of one key keep their order *)
SortByPriority(suggestions) ==
    LET WithKey(k) == SelectSeq(suggestions, LAMBDA x : priority_order(x.priority) = k)
    IN  WithKey(0) \o WithKey(1) \o WithKey(2) \o WithKey(3)

(* the answer to an empty input: a text that asks for the input *)
InputRequired == [kind |-> "input_required", suggested_files |-> <<>>]

(* What smart_content_analysis_and_routing returns: the fields of the text  *)
(* it formats. The key topics and the split of the suggestions into files   *)
(* that exist and files to create are further lines of that text; they read *)
(* the directory and change nothing.                                        *)
RoutingResult(input_content) ==
    IF IsEmptyString(input_content)
    THEN InputRequired
    ELSE LET scores == category_scores(LowerContent(input_content))
         IN  [ kind             |-> "routing",
               primary_category |-> primary_category(scores),
               confidence       |-> confidence(scores, input_content),
               content_type     |-> content_type(LowerContent(input_content)),
               suggested_files  |->
                   SortByPriority(unique_suggestions(routing_suggestions(input_content))) ]

RouterTool == "smart_content_analysis_and_routing"

(* The tool runs on the pending call and returns; it writes no file. *)
smart_content_analysis_and_routing ==
    /\ tool_call.tool = RouterTool
    /\ tool_result = NoResult
    /\ tool_result' = RoutingResult(tool_call.input_content)
    /\ last_op' = [op |-> "tool_returned"]
    /\ UNCHANGED <<tool_call, disk>>
    /\ UNCHANGED profiler_vars
    /\ UNCHANGED redundancy_vars
    /\ UNCHANGED hook_vars

RouterCalls == {[tool |-> RouterTool, input_content |-> c] : c \in Contents}

InitRouter ==
    /\ session_stats = <<>>
    /\ in_flight = [c \in Sessions \X ProfiledTools |-> 0]
    /\ profile_log = <<>>
    /\ calls_started = 0
    /\ fs = <<>>
    /\ content_index = <<>>
    /\ init_task = "pending"
    /\ call = Idle
    /\ check = NoCheck
    /\ fs_ops = 0
    /\ tool_call \in RouterCalls
    /\ tool_result = NoResult
    /\ disk = <<>>
    /\ last_op = [op |-> "constructed"]
    /\ session_activity = <<>>
    /\ pending = EmptyBag
    /\ ending = [s \in CompletenessSessions |-> NotEnding]
    /\ prompts = <<>>
    /\ tool_log = <<>>

NextRouter == smart_content_analysis_and_routing

SpecRouter == InitRouter /\ [][NextRouter]_vars

---------------------------------------------------------------------------
(* The tools of main.py that take a text or a file name, run one call at a  *)
(* time against the files on disk. disk maps the location of each file to   *)
(* its text. Each tool first creates the directory memory-bank and opens    *)
(* its log file there (lines 1477-1491, 1736-1750, 1962-1976, 2146-2160);   *)
(* directories and the log file are not part of disk.                       *)

TemplateTool == "generate_memory_bank_template"
SuggestTool == "suggest_files_to_update"
SummaryTool == "analyze_project_summary"

(* memory_bank_path / file_name: an absolute name replaces the base *)
JoinPath(base, name) ==
    IF name # <<>> /\ Head(name) = "/" THEN name ELSE base \o name

(* The pieces of a path without its separators, each ".." taking back the   *)
(* directory before it; above the start a ".." stays, at the root it is     *)
(* dropped.                                                                 *)
RECURSIVE Walk(_, _, _)
Walk(path, location, absolute) ==
    IF path = <<>> THEN location
    ELSE IF Head(path) = "/" THEN Walk(Tail(path), location, absolute)
    ELSE IF Head(path) # ".." THEN Walk(Tail(path), Append(location, Head(path)), absolute)
    ELSE IF location # <<>> /\ Last(location) # ".."
         THEN Walk(Tail(path), SubSeq(location, 1, Len(location) - 1), absolute)
    ELSE IF absolute THEN Walk(Tail(path), location, absolute)
    ELSE Walk(Tail(path), Append(location, ".."), absolute)

(* The file a path names, as the system resolves it from the working        *)
(* directory: <<"/", ...>> from the root, <<"..", ...>> from above.         *)
Location(path) ==
    IF path # <<>> /\ Head(path) = "/"
    THEN <<"/">> \o Walk(Tail(path), <<>>, TRUE)
    ELSE Walk(path, <<>>, FALSE)

InsideMemoryBank(location) == Len(location) > 1 /\ Head(location) = "memory-bank"

TemplateOutcome_Overwrites(file_name, files, write_ok) ==
    IF file_name = <<>>
    THEN [result |-> InputRequired, files |-> files]
    ELSE LET location == Location(JoinPath(MemoryBankPrefix, TemplateTarget(file_name)))
         IN  IF write_ok
             THEN [result |-> [kind |-> "created", full_path |-> location],
                   files  |-> WriteFile(files, location, TemplateText)]
             ELSE [result |-> [kind |-> "creation_failed"], files |-> files]

TemplateOutcome_NoInputCheck(file_name, files, write_ok) ==
    LET location == Location(JoinPath(MemoryBankPrefix, TemplateTarget(file_name)))
    IN  IF location \in DOMAIN files
        THEN [result |-> [kind |-> "already_exists"], files |-> files]
        ELSE IF write_ok
        THEN [result |-> [kind |-> "created", full_path |-> location],
              files  |-> WriteFile(files, location, TemplateText)]
        ELSE [result |-> [kind |-> "creation_failed"], files |-> files]

(* generate_memory_bank_template, lines 1520-1720: its answer and the files *)
(* after it. write_ok = FALSE is an exception in the try block that creates *)
(* the parent directories and writes the file.                              *)
TemplateOutcome(file_name, files, write_ok) ==
    IF file_name = <<>>
    THEN [result |-> InputRequired, files |-> files]
    ELSE LET location == Location(JoinPath(MemoryBankPrefix, TemplateTarget(file_name)))
         IN  IF location \in DOMAIN files
             THEN [result |-> [kind |-> "already_exists"], files |-> files]
             ELSE IF write_ok
             THEN [result |-> [kind |-> "created", full_path |-> location],
                   files  |-> WriteFile(files, location, TemplateText)]
             ELSE [result |-> [kind |-> "creation_failed"], files |-> files]

generate_memory_bank_template(write_ok) ==
    /\ tool_call.tool = TemplateTool
    /\ tool_result = NoResult
    /\ LET outcome == TemplateOutcome(tool_call.file_name, disk, write_ok)
       IN  /\ tool_result' = outcome.result
           /\ disk' = outcome.files
    /\ last_op' = [op |-> "tool_returned"]
    /\ UNCHANGED tool_call
    /\ UNCHANGED profiler_vars
    /\ UNCHANGED redundancy_vars
    /\ UNCHANGED hook_vars

(* The user follows the tool's next steps (lines 1701-1705) and replaces the *)
(* content of a file the tool created.                                       *)
UserEdit(location, text) ==
    /\ location \in DOMAIN disk
    /\ disk[location] # text
    /\ disk' = WriteFile(disk, location, text)
    /\ last_op' = [op |-> "user_edit"]
    /\ UNCHANGED <<tool_call, tool_result>>
    /\ UNCHANGED profiler_vars
    /\ UNCHANGED redundancy_vars
    /\ UNCHANGED hook_vars

(* lines 2024-2065: the files whose keywords occur in the text, in the      *)
(* order the dict receives them                                             *)
file_suggestions(text_lower) ==
       AppendIf(AnyIn({<<"overview">>, <<"description">>, <<"purpose">>, <<"goal">>,
                       <<"objective">>}, text_lower),
                "context/overview.md")
    \o AppendIf(AnyIn({<<"stakeholder">>, <<"team">>, <<"role">>, <<"responsibility">>,
                       <<"owner">>}, text_lower),
                "context/stakeholders.md")
    \o AppendIf(AnyIn({<<"metric">>, <<"kpi">>, <<"success">>, <<"performance">>,
                       <<"measure">>}, text_lower),
                "context/success_metrics.md")
    \o AppendIf(AnyIn({<<"architecture">>, <<"design">>, <<"pattern">>, <<"structure">>,
                       <<"component">>}, text_lower),
                "tech_specs/system_architecture.md")
    \o AppendIf(AnyIn({<<"api">>, <<"endpoint">>, <<"rest">>, <<"graphql">>,
                       <<"interface">>}, text_lower),
                "tech_specs/api_reference.md")
    \o AppendIf(AnyIn({<<"data">>, <<"flow">>, <<"pipeline">>, <<"process">>,
                       <<"transformation">>}, text_lower),
                "tech_specs/data_flow.md")
    \o AppendIf(AnyIn({<<"module">>, <<"service">>, <<"microservice">>, <<"component">>},
                      text_lower),
                "tech_specs/modules/")
    \o AppendIf(AnyIn({<<"deploy">>, <<"deploy", "ment">>, <<"infra", "structure">>,
                       <<"server">>, <<"cloud">>}, text_lower),
                "devops/deployment_architecture.md")
    \o AppendIf(AnyIn({<<"ci/cd">>, <<"pipeline">>, <<"build">>, <<"test">>,
                       <<"automation">>}, text_lower),
                "devops/ci_cd_pipeline.md")
    \o AppendIf(AnyIn({<<"change">>, <<"update">>, <<"modify">>, <<"fix">>, <<"feature">>},
                      text_lower),
                "dynamic_meta/change_log.md")
    \o AppendIf(AnyIn({<<"decision">>, <<"choice">>, <<"option">>, <<"alternative">>,
                       <<"rationale">>}, text_lower),
                "dynamic_meta/decision_logs.md")
    \o AppendIf(AnyIn({<<"config">>, <<"config", "uration">>, <<"setting">>,
                       <<"environment">>, <<"variable">>}, text_lower),
                "dynamic_meta/config_map.md")

(* suggest_files_to_update, lines 2005-2130: the suggested files and the    *)
(* priority items of the text it returns. The texts of ToolTexts are        *)
(* shorter than the 200 characters after which line 2092 adds the overview  *)
(* to the priority items.                                                   *)
SuggestResult(input_text) ==
    IF IsEmptyString(input_text)
    THEN InputRequired
    ELSE LET suggested == file_suggestions(LowerContent(input_text))
         IN  [ kind                 |-> "suggestions",
               file_suggestions     |-> suggested,
               priority_suggestions |->
                   AppendIf("dynamic_meta/change_log.md" \notin Range(suggested),
                            "dynamic_meta/change_log.md") ]

suggest_files_to_update ==
    /\ tool_call.tool = SuggestTool
    /\ tool_result = NoResult
    /\ tool_result' = SuggestResult(tool_call.input_text)
    /\ last_op' = [op |-> "tool_returned"]
    /\ UNCHANGED <<tool_call, disk>>
    /\ UNCHANGED profiler_vars
    /\ UNCHANGED redundancy_vars
    /\ UNCHANGED hook_vars

(* suggest_files_to_update of tools.py, lines 1055-1236.  Its file names are *)
(* paths in pieces, as the names of the template tool.                      *)

ToolsSuggestTool == "tools.suggest_files_to_update"

StakeholdersFile == <<"context", "/", "stakeholders", ".md">>
CiCdPipelineFile == <<"devops", "/", "ci_cd_pipeline", ".md">>
DeploymentFile == <<"devops", "/", "deployment_architecture", ".md">>
ChangeLogFile == <<"dynamic_meta", "/", "change_log", ".md">>
ConfigMapFile == <<"dynamic_meta", "/", "config_map", ".md">>
DecisionLogsFile == <<"dynamic_meta", "/", "decision_logs", ".md">>
ApiReferenceFile == <<"tech_specs", "/", "api_reference", ".md">>
DataFlowFile == <<"tech_specs", "/", "data_flow", ".md">>
SystemArchitectureFile == <<"tech_specs", "/", "system_architecture", ".md">>

(* the file names in the order str comparison gives them *)
SortedFileNames ==
    << ContextOverview, StakeholdersFile, CiCdPipelineFile, DeploymentFile,
       ChangeLogFile, ConfigMapFile, DecisionLogsFile, ApiReferenceFile,
       DataFlowFile, SystemArchitectureFile >>

FilesIf(condition, files) == IF condition THEN files ELSE {}

(* lines 1124-1199: the change log, and the files of every rule of which a  *)
(* word occurs in the text                                                  *)
tools_suggestions(text_lower) ==
    {ChangeLogFile}
    \cup FilesIf(AnyIn({<<"architecture">>, <<"system">>, <<"design">>, <<"structure">>,
                        <<"component">>}, text_lower),
                 {SystemArchitectureFile, DataFlowFile})
    \cup FilesIf(AnyIn({<<"api">>, <<"endpoint">>, <<"service">>, <<"interface">>,
                        <<"rest">>, <<"graphql">>}, text_lower),
                 {ApiReferenceFile, SystemArchitectureFile})
    \cup FilesIf(AnyIn({<<"database">>, <<"data">>, <<"schema">>, <<"model">>,
                        <<"storage">>, <<"query">>}, text_lower),
                 {DataFlowFile, SystemArchitectureFile})
    \cup FilesIf(AnyIn({<<"deploy">>, <<"devops">>, <<"ci/cd">>, <<"pipeline">>,
                        <<"infrastructure">>, <<"docker">>, <<"kubernetes">>}, text_lower),
                 {DeploymentFile, CiCdPipelineFile})
    \cup FilesIf(AnyIn({<<"config">>, <<"setting">>, <<"environment">>, <<"variable">>,
                        <<"parameter">>}, text_lower),
                 {ConfigMapFile})
    \cup FilesIf(AnyIn({<<"decision">>, <<"choice">>, <<"alternative">>, <<"option">>,
                        <<"strategy">>}, text_lower),
                 {DecisionLogsFile})
    \cup FilesIf(AnyIn({<<"user">>, <<"stakeholder">>, <<"customer">>, <<"requirement">>,
                        <<"persona">>}, text_lower),
                 {StakeholdersFile, ContextOverview})
    \cup FilesIf(AnyIn({<<"feature">>, <<"functionality">>, <<"capability">>, <<"module">>,
                        <<"component">>}, text_lower),
                 {ContextOverview, SystemArchitectureFile})
    \cup FilesIf(AnyIn({<<"performance">>, <<"monitoring">>, <<"metrics">>, <<"logging">>,
                        <<"observability">>}, text_lower),
                 {DeploymentFile, SystemArchitectureFile})
    \cup FilesIf(AnyIn({<<"security">>, <<"authentication">>, <<"authorization">>,
                        <<"access">>, <<"permission">>}, text_lower),
                 {SystemArchitectureFile, ApiReferenceFile})
    \cup FilesIf(AnyIn({<<"test">>, <<"testing">>, <<"qa">>, <<"quality">>,
                        <<"validation">>}, text_lower),
                 {SystemArchitectureFile, CiCdPipelineFile})

(* (memory_bank_path / file).exists() *)
FileExists(file, files) == Location(JoinPath(MemoryBankPrefix, file)) \in DOMAIN files

(* sequence[:n] *)
FirstN(sequence, n) == SubSeq(sequence, 1, IF Len(sequence) < n THEN Len(sequence) ELSE n)

(* lines 1118-1236: the sorted suggestions, the existing ones first, then   *)
(* at most three missing ones marked CREATE, the overview put in front when *)
(* it exists and is not listed, and of all that the first ten.              *)
ToolsSuggestResult(input_text, files) ==
    IF IsEmptyString(input_text)
    THEN InputRequired
    ELSE LET chosen == tools_suggestions(LowerContent(input_text))
             suggestions == SelectSeq(SortedFileNames, LAMBDA file : file \in chosen)
             existing_files == SelectSeq(suggestions, LAMBDA file : FileExists(file, files))
             missing_files == SelectSeq(suggestions, LAMBDA file : ~FileExists(file, files))
             listed == [i \in DOMAIN existing_files |->
                           [file |-> existing_files[i], create |-> FALSE]]
                       \o [i \in DOMAIN FirstN(missing_files, 3) |->
                              [file |-> missing_files[i], create |-> TRUE]]
             overview == [file |-> ContextOverview, create |-> FALSE]
             final_suggestions ==
                 IF overview \notin Range(listed) /\ FileExists(ContextOverview, files)
                 THEN <<overview>> \o listed
                 ELSE listed
         IN  [kind |-> "final_suggestions", files |-> FirstN(final_suggestions, 10)]

tools_suggest_files_to_update ==
    /\ tool_call.tool = ToolsSuggestTool
    /\ tool_result = NoResult
    /\ tool_result' = ToolsSuggestResult(tool_call.input_text, disk)
    /\ last_op' = [op |-> "tool_returned"]
    /\ UNCHANGED <<tool_call, disk>>
    /\ UNCHANGED profiler_vars
    /\ UNCHANGED redundancy_vars
    /\ UNCHANGED hook_vars

(* analyze_project_summary, lines 1779-1946: for a summary that is not      *)
(* empty it returns the text of an analysis, of which only the kind is kept.*)
SummaryResult(project_summary) ==
    IF IsEmptyString(project_summary) THEN InputRequired ELSE [kind |-> "analysis"]

analyze_project_summary ==
    /\ tool_call.tool = SummaryTool
    /\ tool_result = NoResult
    /\ tool_result' = SummaryResult(tool_call.project_summary)
    /\ last_op' = [op |-> "tool_returned"]
    /\ UNCHANGED <<tool_call, disk>>
    /\ UNCHANGED profiler_vars
    /\ UNCHANGED redundancy_vars
    /\ UNCHANGED hook_vars

(* The server takes a call of one of the tools ... *)
ReceiveCall(c) ==
    /\ tool_call = NoCall
    /\ tool_call' = c
    /\ tool_result' = NoResult
    /\ last_op' = [op |-> "tool_called"]
    /\ UNCHANGED disk
    /\ UNCHANGED profiler_vars
    /\ UNCHANGED redundancy_vars
    /\ UNCHANGED hook_vars

(* ... and hands the tool's answer to the caller. *)
ReturnResult ==
    /\ tool_call # NoCall
    /\ tool_result # NoResult
    /\ tool_call' = NoCall
    /\ tool_result' = NoResult
    /\ last_op' = [op |-> "result_delivered"]
    /\ UNCHANGED disk
    /\ UNCHANGED profiler_vars
    /\ UNCHANGED redundancy_vars
    /\ UNCHANGED hook_vars

ToolTexts ==
    { <<Blank>>, <<Blank, Blank>>, << <<"overview">> >>, << <<"meeting">> >>,
      << <<"Deploy">>, <<"bug">> >>, << <<"Deploy">>, <<"user">> >> }

TemplateNames ==
    { <<>>, <<"overview">>, ContextOverview, ChangeLogFile,
      <<"..", "/", "evil", ".md">>, <<"/", "etc", "/", "evil">> }

ToolCalls ==
    {[tool |-> RouterTool, input_content |-> t] : t \in ToolTexts}
    \cup {[tool |-> SuggestTool, input_text |-> t] : t \in ToolTexts}
    \cup {[tool |-> ToolsSuggestTool, input_text |-> t] : t \in ToolTexts}
    \cup {[tool |-> SummaryTool, project_summary |-> t] : t \in ToolTexts}
    \cup {[tool |-> TemplateTool, file_name |-> n] : n \in TemplateNames}

NextTools ==
    \/ \E c \in ToolCalls : ReceiveCall(c)
    \/ smart_content_analysis_and_routing
    \/ suggest_files_to_update
    \/ tools_suggest_files_to_update
    \/ analyze_project_summary
    \/ \E write_ok \in BOOLEAN : generate_memory_bank_template(write_ok)
    \/ \E location \in DOMAIN disk : UserEdit(location, Text3)
    \/ ReturnResult

SpecTools == Init /\ [][NextTools]_vars

---------------------------------------------------------------------------
(* Properties of the Behavior Profiler, checked under SpecProfiler *)

CountIn(sequence, tools) == Cardinality({i \in DOMAIN sequence : sequence[i] \in tools})

ReportWritten == Len(profile_log') = Len(profile_log) + 1

(* C1: once on_session_end(s) has returned for a session with recorded     *)
(* calls, session_stats has no entry for s; and a call recorded for a       *)
(* session without an entry yields a record holding that call alone: a      *)
(* one-element sequence, a count of 1 for that tool only, and category      *)
(* counters that count only that call.                                      *)
C1_EndedSessionIsPurged ==
    [][ /\ (last_op'.op = "session_end" /\ last_op'.session_id \in DOMAIN session_stats)
            => last_op'.session_id \notin DOMAIN session_stats'
        /\ \A s \in Sessions :
              (s \notin DOMAIN session_stats /\ s \in DOMAIN session_stats')
              => /\ last_op'.op = "call_return"
                 /\ session_stats'[s].tool_sequence = <<last_op'.tool>>
                 /\ DOMAIN session_stats'[s].tool_usage = {last_op'.tool}
                 /\ session_stats'[s].tool_usage[last_op'.tool] = 1
                 /\ session_stats'[s].memory_tools_used =
                        CountIn(<<last_op'.tool>>, memory_bank_tools)
                 /\ session_stats'[s].core_tools_used =
                        CountIn(<<last_op'.tool>>, core_dev_tools)
      ]_vars

(* A call has just been recorded afresh for a session that was reported     *)
(* (hence ended) earlier with two calls.                                    *)
C1_Witness ==
    /\ last_op.op = "call_return"
    /\ last_op.session_id \in DOMAIN session_stats
    /\ Len(session_stats[last_op.session_id].tool_sequence) = 1
    /\ \E i \in DOMAIN profile_log :
          /\ profile_log[i].session_id = last_op.session_id
          /\ profile_log[i].total_tool_calls = 2

(* C2: for every active session the per-tool counts of tool_usage add up to *)
(* the length of tool_sequence.                                             *)
C2_CountsMatchSequence ==
    \A s \in DOMAIN session_stats :
        CounterTotal(session_stats[s].tool_usage) = Len(session_stats[s].tool_sequence)

(* A session has recorded the same tool twice (one counter at 2) after the  *)
(* other session ended and was reported.                                    *)
C2_Witness ==
    /\ profile_log # <<>>
    /\ \E s \in DOMAIN session_stats :
          /\ Len(session_stats[s].tool_sequence) = 2
          /\ Cardinality(DOMAIN session_stats[s].tool_usage) = 1

(* C3: in every report whose pattern analysis carries the counts,           *)
(* core_tool_uses is the number of core-tool entries of the whole sequence, *)
(* memory_follow_ups the number of adjacent (core, memory) pairs, and the   *)
(* rate is memory_follow_ups / core_tool_uses * 100 (in tenths of a         *)
(* percent).                                                                *)
C3_PatternMiningCountsWholeSequence ==
    [][ ReportWritten =>
          LET sequence == session_stats[last_op'.session_id].tool_sequence
              analysis == Last(profile_log').pattern_analysis
              core == CountIn(sequence, core_dev_tools)
              pairs == Cardinality({i \in 1 .. (Len(sequence) - 1) :
                           /\ sequence[i] \in core_dev_tools
                           /\ sequence[i + 1] \in memory_bank_tools})
          IN  "core_tool_uses" \in DOMAIN analysis
              => /\ analysis.core_tool_uses = core
                 /\ analysis.memory_follow_ups = pairs
                 /\ core > 0 => analysis.memory_follow_up_rate.tenths * core = pairs * 1000
      ]_vars

(* C4: on_session_end for a session id without an entry changes neither    *)
(* session_stats nor the behaviour log.                                     *)
C4_UnknownSessionEndIsNoOp ==
    [][ (last_op'.op = "session_end" /\ last_op'.session_id \notin DOMAIN session_stats)
          => /\ session_stats' = session_stats
             /\ profile_log' = profile_log
      ]_vars

(* on_session_end has just run for an id without an entry while the other   *)
(* session has recorded calls.                                              *)
C4_Witness ==
    /\ last_op.op = "session_end"
    /\ ~last_op.known
    /\ last_op.session_id \notin DOMAIN session_stats
    /\ session_stats # <<>>
    /\ profile_log = <<>>

(* C5: the ratio of every report written equals memory calls over memory    *)
(* plus core calls of the session's sequence, lies in [0,1], and is 0 when  *)
(* the session has neither a memory-tool nor a core-tool call.              *)
C5_AdherenceRatio ==
    [][ ReportWritten =>
          LET sequence == session_stats[last_op'.session_id].tool_sequence
              ratio == Last(profile_log').memory_adherence_ratio
              memory == CountIn(sequence, memory_bank_tools)
              core == CountIn(sequence, core_dev_tools)
          IN  /\ ratio.den > 0
              /\ 0 <= ratio.num /\ ratio.num <= ratio.den
              /\ memory + core > 0 => ratio.num * (memory + core) = memory * ratio.den
              /\ memory + core = 0 => ratio.num = 0
      ]_vars

(* Two reports were written: one with ratio 1/2, one for a session whose    *)
(* only call was neither a memory nor a core tool (ratio 0).                *)
C5_Witness ==
    \E i, j \in DOMAIN profile_log :
        /\ profile_log[i].memory_adherence_ratio = [num |-> 1, den |-> 2]
        /\ profile_log[j].total_tool_calls = 1
        /\ profile_log[j].memory_tools_used + profile_log[j].core_tools_used = 0
        /\ profile_log[j].memory_adherence_ratio.num = 0

---------------------------------------------------------------------------
(* Properties of the Redundancy Detector, checked under SpecRedundancy *)

CheckJustRan == last_op.op = "redundancy_check" /\ check.ran

(* words of the new content and of file p, as the claim's Jaccard terms *)
Shared(p) == Intersection(WordSet(check.content), WordSet(fs[p].content))
Joined(p) == Union(WordSet(check.content), WordSet(fs[p].content))

IsTarget(p) == MemoryBankPrefix \o p = check.file_path

Reported(p) == \E i \in DOMAIN check.similar_files : check.similar_files[i] = p

(* C6: among the files the scan compares, a file is reported as similar if  *)
(* and only if its Jaccard similarity with the new content is >= 0.3; a     *)
(* file at exactly 0.3 is reported.                                         *)
C6_ReportedIffAtLeastThreshold ==
    CheckJustRan =>
        \A p \in check.compared :
            Reported(p) <=> (Joined(p) > 0 /\ 10 * Shared(p) >= 3 * Joined(p))

(* C7: for new content of fewer than 10 tokens no file is compared and no   *)
(* file is reported.                                                        *)
C7_ShortContentIsSkipped ==
    (last_op.op = "redundancy_check" /\ call.tool_name = "edit_file"
        /\ Len(Split(call.arguments.code_edit)) < 10)
    => (check.ran => check.compared = {} /\ check.similar_files = <<>>)

(* C8: right after a rebuild every index entry is the hash of a readable    *)
(* file now on disk and maps to such a file, and every readable file on     *)
(* disk is found in the index under its hash (for files of equal content    *)
(* an entry that maps to any one of them is accepted).                      *)
C8_IndexFreshAfterRebuild ==
    last_op.op = "index_rebuild" =>
        /\ \A h \in DOMAIN content_index :
              /\ content_index[h] \in DOMAIN fs
              /\ fs[content_index[h]].readable
              /\ _generate_content_hash(fs[content_index[h]].content) = h
        /\ \A p \in DOMAIN fs :
              fs[p].readable =>
                  _generate_content_hash(fs[p].content) \in DOMAIN content_index

(* C9: a readable file is left out of the comparison if and only if it is   *)
(* the target file, and the target file is never reported.                  *)
C9_SelfExclusionIsExact ==
    CheckJustRan =>
        \A p \in DOMAIN fs :
            /\ fs[p].readable => (p \notin check.compared <=> IsTarget(p))
            /\ IsTarget(p) => ~Reported(p)

(* C10: the reported files are in descending order of similarity.           *)
C10_SortedBySimilarity ==
    CheckJustRan =>
        \A i, j \in DOMAIN check.similar_files :
            i < j =>
                LET p == check.similar_files[i]
                    q == check.similar_files[j]
                IN  Shared(p) * Joined(q) >= Shared(q) * Joined(p)

---------------------------------------------------------------------------
(* Properties of the similarity scan and the index build, under SpecScan *)

C12_SimilarityIsSymmetric ==
    CheckJustRan =>
        \A p \in check.compared :
            LET A == WordSet(check.content)
                B == WordSet(fs[p].content)
            IN  /\ Intersection(A, B) * Union(B, A) = Intersection(B, A) * Union(A, B)
                /\ 0 <= Intersection(A, B) /\ Intersection(A, B) <= Union(A, B)
                /\ (A = B /\ A # {}) => (Intersection(A, B) = Union(A, B) /\ Reported(p))
                /\ Reported(p) <=> IsSimilar(B, A)

(* A scan compared the new content with a file of the same words, which it  *)
(* reported, and with a file of other, overlapping words, which it did not. *)
C12_Witness ==
    /\ CheckJustRan
    /\ \E p, q \in check.compared :
          /\ WordSet(fs[p].content) = WordSet(check.content)
          /\ Reported(p)
          /\ WordSet(fs[q].content) # WordSet(check.content)
          /\ Shared(q) > 0
          /\ ~Reported(q)

(* C13: right after an index build every readable file is in the index      *)
(* under its hash, mapped to a readable file of that content, and no entry  *)
(* stems from an unreadable file.                                           *)
C13_IndexBuildSkipsUnreadableFiles ==
    last_op.op = "index_rebuild" =>
        /\ \A p \in DOMAIN fs :
              fs[p].readable =>
                  LET h == _generate_content_hash(fs[p].content)
                  IN  /\ h \in DOMAIN content_index
                      /\ content_index[h] \in DOMAIN fs
                      /\ fs[content_index[h]].readable
                      /\ _generate_content_hash(fs[content_index[h]].content) = h
        /\ \A h \in DOMAIN content_index :
              /\ content_index[h] \in DOMAIN fs
              /\ fs[content_index[h]].readable

(* An index build has just run over a tree with an unreadable file and two  *)
(* readable files of different content, and holds both of these.            *)
C13_Witness ==
    /\ last_op.op = "index_rebuild"
    /\ \E p \in DOMAIN fs : ~fs[p].readable
    /\ Cardinality(DOMAIN content_index) = 2

---------------------------------------------------------------------------
(* Properties of the Content Router, checked under SpecRouter *)

(* the router has returned an analysis of tool_call.input_content *)
Routed == tool_call.tool = RouterTool /\ tool_result.kind = "routing"

(* per category, the number of its keywords that occur in the lower-cased   *)
(* input, each keyword counted once                                         *)
KeywordCount == category_scores(LowerContent(tool_call.input_content))

CategoryIndex(c) == CHOOSE i \in DOMAIN Categories : Categories[i] = c

Suggested == tool_result.suggested_files

(* C15: the primary category has the highest keyword count; among several   *)
(* categories with the highest non-zero count the earliest of context,      *)
(* tech_specs, devops, dynamic_meta is taken; with all counts zero none of  *)
(* the four is taken.                                                       *)
C15_PrimaryIsFirstHighestCategory ==
    Routed =>
        LET primary == tool_result.primary_category
            count == KeywordCount
        IN  IF \E c \in Range(Categories) : count[c] > 0
            THEN /\ primary \in Range(Categories)
                 /\ \A c \in Range(Categories) :
                       /\ count[c] <= count[primary]
                       /\ CategoryIndex(c) < CategoryIndex(primary)
                              => count[c] < count[primary]
            ELSE primary \notin Range(Categories)

(* The router has answered an input in which one category and a later one   *)
(* share the highest, non-zero count.                                       *)
C15_Witness ==
    /\ Routed
    /\ LET count == KeywordCount
       IN  \E c \in Range(Categories) :
               /\ c # tool_result.primary_category
               /\ count[c] > 0
               /\ \A d \in Range(Categories) : count[d] <= count[c]

(* C16: the confidence is a defined number between 0 and 100: no division   *)
(* by zero, and at most 100 also when one word holds several keywords.      *)
C16_ConfidenceWithinBounds ==
    Routed =>
        /\ tool_result.confidence.den > 0
        /\ 0 <= tool_result.confidence.num
        /\ tool_result.confidence.num <= 100 * tool_result.confidence.den

(* the entries in the order the routing rules produced them *)
Generated == routing_suggestions(tool_call.input_content)

(* C17: each target file is suggested at most once, by the first entry      *)
(* generated for it, and the list runs from high over medium to low with    *)
(* entries of equal priority in the order of their generation.              *)
C17_UniqueFirstAndStablySorted ==
    Routed =>
        LET generated == Generated
            suggested == Suggested
            (* g is the first entry generated for its file *)
            First(g) == \A h \in 1..(g - 1) : generated[h].file # generated[g].file
        IN  /\ \A i, j \in DOMAIN suggested :
                  i # j => suggested[i].file # suggested[j].file
            /\ \A g \in DOMAIN generated :
                  \E i \in DOMAIN suggested : suggested[i].file = generated[g].file
            /\ \A i \in DOMAIN suggested :
                  \E g \in DOMAIN generated : generated[g] = suggested[i] /\ First(g)
            /\ \A i, j \in DOMAIN suggested :
                  i < j =>
                      /\ priority_order(suggested[i].priority)
                             <= priority_order(suggested[j].priority)
                      /\ suggested[i].priority = suggested[j].priority =>
                            \E g, h \in DOMAIN generated :
                                /\ g < h
                                /\ generated[g] = suggested[i] /\ First(g)
                                /\ generated[h] = suggested[j] /\ First(h)

(* The rules produced two entries of different priority for one file, and   *)
(* the router answered with the first of them only.                         *)
C17_Witness ==
    /\ Routed
    /\ \E g, h \in DOMAIN Generated :
          /\ g < h
          /\ Generated[g].file = Generated[h].file
          /\ Generated[g].priority # Generated[h].priority
          /\ \E i \in DOMAIN Suggested : Suggested[i] = Generated[g]

(* C18: when the only category keywords in the input are devops keywords,   *)
(* the primary category is devops and the suggestions are not empty and     *)
(* name only devops/deployment_architecture.md and devops/ci_cd_pipeline.md.*)
C18_DevopsContentRoutesToDevopsFiles ==
    LET count == KeywordCount
    IN  ( /\ Routed
          /\ count.devops > 0
          /\ count.context = 0 /\ count.tech_specs = 0 /\ count.dynamic_meta = 0 )
        => /\ tool_result.primary_category = "devops"
           /\ Len(Suggested) > 0
           /\ \A i \in DOMAIN Suggested :
                 Suggested[i].file \in { "devops/deployment_architecture.md",
                                         "devops/ci_cd_pipeline.md" }

(* C19 as stated: every suggestion is an entry of the primary category's    *)
(* keyword-to-file table, with the one priority the table gives that file.  *)
C19_SuggestionsOnlyFromPrimaryCategory ==
    Routed =>
        \A i \in DOMAIN Suggested :
            \E t \in CategoryTable :
                /\ t.category = tool_result.primary_category
                /\ t.file = Suggested[i].file
                /\ t.priority = Suggested[i].priority

(* C19 amended: every suggestion is an entry of the primary category's      *)
(* table with the table's priority, or it is dynamic_meta/change_log.md     *)
(* added for the content type: with priority medium for meeting notes, with *)
(* priority high for an issue report.                                       *)
C19_PrimaryCategoryOrContentTypeRule ==
    Routed =>
        \A i \in DOMAIN Suggested :
            \/ \E t \in CategoryTable :
                  /\ t.category = tool_result.primary_category
                  /\ t.file = Suggested[i].file
                  /\ t.priority = Suggested[i].priority
            \/ /\ Suggested[i].file = "dynamic_meta/change_log.md"
               /\ \/ /\ tool_result.content_type = "meeting_notes"
                     /\ Suggested[i].priority = "medium"
                  \/ /\ tool_result.content_type = "issue_report"
                     /\ Suggested[i].priority = "high"

(* The router answered meeting notes whose primary category is not          *)
(* dynamic_meta with a file of the primary category and the change log.     *)
C19_Witness ==
    /\ Routed
    /\ tool_result.content_type = "meeting_notes"
    /\ tool_result.primary_category \in Range(Categories) \ {"dynamic_meta"}
    /\ \E i, j \in DOMAIN Suggested :
          /\ Suggested[i].file = "dynamic_meta/change_log.md"
          /\ \E t \in CategoryTable :
                /\ t.category = tool_result.primary_category
                /\ t.file = Suggested[j].file

---------------------------------------------------------------------------
(* Properties of the tools, checked under SpecTools *)

(* the pending call carries the empty string as its text or file name *)
EmptyInput(c) ==
    CASE c.tool = RouterTool -> IsEmptyString(c.input_content)
      [] c.tool = SuggestTool -> IsEmptyString(c.input_text)
      [] c.tool = SummaryTool -> IsEmptyString(c.project_summary)
      [] c.tool = TemplateTool -> c.file_name = <<>>
      [] OTHER -> FALSE

(* C14: a call of one of the four tools with the empty string is answered   *)
(* by the input-required result without suggestions, and the step that      *)
(* answers it leaves every file as it was.                                  *)
C14_EmptyInputIsAnsweredWithoutEffect ==
    [][ ( /\ tool_call # NoCall
          /\ EmptyInput(tool_call)
          /\ tool_result = NoResult
          /\ tool_result' # NoResult )
        => /\ tool_result' = InputRequired
           /\ tool_result'.suggested_files = <<>>
           /\ disk' = disk ]_vars

(* The template tool, called with the empty name while files exist, has     *)
(* answered that a name is required.                                        *)
C14_Witness ==
    /\ tool_call.tool = TemplateTool
    /\ tool_call.file_name = <<>>
    /\ tool_result = InputRequired
    /\ disk # <<>>

(* C20: every file on disk, all of them written by                          *)
(* generate_memory_bank_template, lies inside memory-bank/.                 *)
C20_TemplateWritesOnlyInsideMemoryBank ==
    \A location \in DOMAIN disk : InsideMemoryBank(location)

(* the path generate_memory_bank_template tests and writes for a name *)
TemplateLocation(file_name) ==
    Location(JoinPath(MemoryBankPrefix, TemplateTarget(file_name)))

TemplateAnswers ==
    /\ tool_call # NoCall
    /\ tool_call.tool = TemplateTool
    /\ tool_result = NoResult
    /\ tool_result' # NoResult

(* C26: a call of generate_memory_bank_template leaves the content of every *)
(* file that exists unchanged, and when the file it names exists it answers *)
(* with the already-exists result and changes no file at all.               *)
C26_TemplateNeverOverwrites ==
    [][ TemplateAnswers =>
          /\ \A location \in DOMAIN disk :
                 location \in DOMAIN disk' /\ disk'[location] = disk[location]
          /\ ( tool_call.file_name # <<>>
               /\ TemplateLocation(tool_call.file_name) \in DOMAIN disk )
             => (tool_result'.kind = "already_exists" /\ disk' = disk) ]_vars

(* The tool has answered already-exists for a file that it created earlier  *)
(* and the user has edited since; the file holds the user's text.           *)
C26_Witness ==
    /\ tool_call # NoCall
    /\ tool_call.tool = TemplateTool
    /\ tool_result # NoResult
    /\ tool_result.kind = "already_exists"
    /\ disk[TemplateLocation(tool_call.file_name)] # TemplateText

(* C30: the answer of either suggest_files_to_update to a text that is not  *)
(* the empty string names dynamic_meta/change_log.md: among the suggested   *)
(* files or the priority items (main.py), or in the returned list as a file *)
(* to update or to create (tools.py).                                       *)
C30_ChangeLogIsAlwaysSuggested ==
    /\ ( /\ tool_call.tool = SuggestTool
         /\ tool_result # NoResult
         /\ ~IsEmptyString(tool_call.input_text) )
       => "dynamic_meta/change_log.md"
              \in Range(tool_result.file_suggestions)
                  \cup Range(tool_result.priority_suggestions)
    /\ ( /\ tool_call.tool = ToolsSuggestTool
         /\ tool_result # NoResult
         /\ ~IsEmptyString(tool_call.input_text) )
       => \E i \in DOMAIN tool_result.files : tool_result.files[i].file = ChangeLogFile

---------------------------------------------------------------------------
(* Properties of a call through the redundancy middleware, under SpecChain *)

(* C21: no call ends with an exception of the middleware's own code: the    *)
(* tool runs, and the caller gets its result or the tool's own exception.   *)
C21_MiddlewareNeverHarmsCall ==
    last_op.op # "middleware_raised"

(* C22: the detector does no work in the background: the content index      *)
(* changes only in the step in which on_call_tool finishes a tool call.     *)
C22_IndexChangesOnlyInsideToolCalls ==
    [][content_index' # content_index => call.pc = "returned"]_vars


---------------------------------------------------------------------------
(* Session end racing a call in flight, checked under SpecProfiler *)

(* C24: when on_session_end(s) has returned while a call of s was still     *)
(* suspended in call_next, and that call completes next, session_stats      *)
(* holds no entry for the ended session s afterwards.                       *)
C24_RacingCallLeavesNoSessionState ==
    [][ ( /\ last_op.op = "session_end"
          /\ last_op'.op = "call_return"
          /\ last_op'.session_id = last_op.session_id )
        => last_op'.session_id \notin DOMAIN session_stats' ]_vars

---------------------------------------------------------------------------
(* Accounting of the completeness middleware, checked under SpecCompleteness *)

(* C25: a completeness prompt for s counts exactly the calls held in        *)
(* session_activity[s] when its entry is deleted, and in every other step   *)
(* the entry of a session is left alone or extended by one call; so every   *)
(* recorded call is counted by exactly one prompt.                          *)
C25_EveryRecordedCallIsCountedOnce ==
    [][ \A s \in CompletenessSessions :
          IF last_op'.op = "completeness_prompt" /\ last_op'.session_id = s
          THEN /\ Last(prompts').tools_used = Len(ActivityOf(session_activity, s))
               /\ s \notin DOMAIN session_activity'
          ELSE \/ ActivityOf(session_activity', s) = ActivityOf(session_activity, s)
               \/ \E t \in TrackedTools :
                      ActivityOf(session_activity', s)
                          = Append(ActivityOf(session_activity, s), [tool |-> t])
      ]_vars

---------------------------------------------------------------------------
(* Sanitization of logged arguments, checked under SpecLogging *)

(* C27: in every entry of the tool log, the value under a key named         *)
(* password, token, secret or key in any letter case is "[REDACTED]".       *)
C27_SensitiveValuesAreRedacted ==
    \A i \in DOMAIN tool_log :
        \A key \in DOMAIN tool_log[i].arguments :
            KeyLower(key) \in SensitiveKeys => tool_log[i].arguments[key] = Redacted
---------------------------------------------------------------------------
(* Properties of the report's assessment, checked under SpecReport *)

(* the label C23 names for the ratio num/den *)
ClaimedLabel(ratio) ==
    IF 10 * ratio.num > 7 * ratio.den THEN "Memory-Conscious"
    ELSE IF 10 * ratio.num >= 4 * ratio.den THEN "Balanced"
    ELSE IF 10 * ratio.num >= 2 * ratio.den THEN "Task-Focused"
    ELSE "Memory-Negligent"

(* C23 as stated: every report is labelled Memory-Conscious above 0.7,      *)
(* Balanced from 0.4, Task-Focused from 0.2 and Memory-Negligent below.     *)
C23_LabelFollowsClaimedThresholds ==
    \A i \in DOMAIN profile_log :
        profile_log[i].assessment = ClaimedLabel(profile_log[i].memory_adherence_ratio)

(* C23 amended: every report carries exactly one of three labels, fixed by  *)
(* its ratio: EXCELLENT above 0.8, GOOD above 0.5 up to 0.8, and NEEDS      *)
(* IMPROVEMENT up to 0.5.                                                   *)
C23_AssessmentFollowsFixedThresholds ==
    \A i \in DOMAIN profile_log :
        LET ratio == profile_log[i].memory_adherence_ratio
            label == profile_log[i].assessment
        IN  /\ 0 <= ratio.num /\ ratio.num <= ratio.den
            /\ label \in {"EXCELLENT", "GOOD", "NEEDS IMPROVEMENT"}
            /\ label = "EXCELLENT" <=> 10 * ratio.num > 8 * ratio.den
            /\ label = "GOOD" <=>
                   (10 * ratio.num > 5 * ratio.den /\ 10 * ratio.num <= 8 * ratio.den)
            /\ label = "NEEDS IMPROVEMENT" <=> 10 * ratio.num <= 5 * ratio.den

(* A report with a ratio of exactly 0.8 was written, labelled GOOD. *)
C23_Witness ==
    \E i \in DOMAIN profile_log :
        /\ 10 * profile_log[i].memory_adherence_ratio.num
               = 8 * profile_log[i].memory_adherence_ratio.den
        /\ profile_log[i].assessment = "GOOD"

(* the calls for which C28 requires the check: edit_file with 'memory-bank' *)
(* in target_file and a non-empty code_edit                                 *)
CheckRequired(c) ==
    /\ c.tool_name = "edit_file"
    /\ Contains(c.arguments.target_file, "memory-bank")
    /\ c.arguments.code_edit # <<>>

(* C28: the redundancy check runs in the step that hands the call to the    *)
(* tool and in no other: it runs there exactly for an edit_file call with   *)
(* 'memory-bank' in target_file and a non-empty code_edit, it leaves the    *)
(* files alone and reports only files similar as they are before the edit;  *)
(* the tool's own step keeps the outcome of the check, and every other step *)
(* keeps or clears it.                                                      *)
C28_CheckRunsOnceBeforeTheTool ==
    [][ /\ (call.pc = "idle" /\ call'.pc = "executing") =>
              /\ fs' = fs
              /\ check'.ran <=> CheckRequired(call')
              /\ check'.ran =>
                    /\ check'.content = call'.arguments.code_edit
                    /\ check'.compared \subseteq DOMAIN fs
                    /\ \A i \in DOMAIN check'.similar_files :
                          LET p == check'.similar_files[i]
                          IN  /\ p \in check'.compared
                              /\ IsSimilar(WordSet(call'.arguments.code_edit),
                                           WordSet(fs[p].content))
        /\ (call.pc = "executing" /\ call'.pc = "returned") => check' = check
        /\ ~(call.pc = "idle" /\ call'.pc = "executing") =>
              (check' = check \/ check' = NoCheck)
      ]_vars

(* The tool has executed and stored the edit after a check that found       *)
(* similar files.                                                           *)
C28_Witness ==
    /\ call.pc = "returned"
    /\ check.ran
    /\ check.prompted
    /\ fs_ops > 0

(* the file under memory-bank/ that the tool of call c writes *)
WrittenFile(c) ==
    IF c.tool_name = "edit_file"
    THEN PathUnderMemoryBank(c.arguments.target_file)
    ELSE TemplateTarget(c.arguments.file_name)

(* C29: when on_call_tool hands back the result of a                        *)
(* generate_memory_bank_template or edit_file call that wrote a file under  *)
(* memory-bank, the content index has an entry for that file's content.     *)
C29_IndexRefreshedAfterEveryWrite ==
    [][ (call.pc = "returned" /\ call.wrote /\ call'.pc = "idle") =>
            _generate_content_hash(fs[WrittenFile(call)].content)
                \in DOMAIN content_index' ]_vars

===========================================================================
